---- MODULE Spec2Model ----
(***************************************************************************)
(* Asynchronous job lifecycle of the AI chat backend.                      *)
(*                                                                         *)
(*   POST /chat/background    chat_background_celery  (app/main.py)        *)
(*   GET  /chat/tasks/{id}    get_task_status         (app/main.py)        *)
(*   Celery worker            process_long_chat_task  (background_tasks.py)*)
(*   Celery result backend    result_expires=3600     (background_tasks.py)*)
(*   chat_tasks table         ChatTask                (app/database.py)    *)
(*   every request            rate_limit_middleware   (app/main.py)        *)
(*                                                                         *)
(* The web process and the Celery worker are separate processes that share *)
(* the broker/result backend; each handler is therefore split at the       *)
(* points where it talks to the broker, the backend or the database.       *)
(***************************************************************************)
EXTENDS Integers, FiniteSets, Sequences, TLC

\* ------------------------------------------------------------------ bounds
MaxTasks == 1          \* task ids the broker hands out
MaxCalls == 1          \* concurrent GET /chat/tasks/{id} requests
MaxInstant == 1        \* clock readings, one window apart, after the first

TaskIds == 1..MaxTasks
Calls   == 1..MaxCalls

\* Principals are interchangeable (no code reads the value of a user id), so
\* the request that draws the j-th id is made by one of the first j principals,
\* and one more principal stands for everybody who owns nothing.
Users == 1..(MaxTasks + 1)
Submitters(j) == 1..j

\* A client may ask for any string: the ids the broker hands out and one that
\* it never hands out.
NeverIssued == MaxTasks + 1
PollIds     == TaskIds \cup {NeverIssued}

\* ------------------------------------------------------------- vocabulary
None   == "None"       \* Python None / absent column value
NoRow  == [user_id |-> 0, status |-> None, result |-> None, error |-> None]
NoMeta == [status |-> None, result |-> None]
NoTask == [pc |-> "none", user_id |-> 0]
NoRequest == [pc |-> "free", user |-> 0]

\* celery.states.READY_STATES: a meta in one of these is cached by AsyncResult
READY_STATES == {"SUCCESS", "FAILURE", "REVOKED"}

\* models.TaskStatus
TaskStatus == {"pending", "processing", "completed", "failed"}
Terminal   == {"completed", "failed"}

VARIABLES
    chat_tasks,   \* the chat_tasks table: task id -> row (NoRow when absent)
    worker,       \* broker message / worker position per task id
    backend,      \* Celery result backend: task id -> stored meta (NoMeta when no key)
    submit,       \* position of the chat_background_celery request that drew the id
    calls,        \* GET /chat/tasks/{id} requests in flight or finished
    reported,     \* history: first terminal view a 200 response carried, per task
    request_counts,   \* main.request_counts: client address -> list of request times
    current_time,     \* time.time() as read by the latest request
    client_ip,        \* address of the latest request (None before the first)
    called_next       \* whether the latest request was passed to call_next

jobVars  == <<chat_tasks, worker, backend, submit, calls, reported>>
rateVars == <<request_counts, current_time, client_ip, called_next>>
vars     == <<jobVars, rateVars>>

NoView == [status |-> None, result |-> None, error |-> None]

\* One GET /chat/tasks/{id} request: its position, its arguments, the AsyncResult's
\* cached meta, and the response being built.  Two history fields record what
\* held when the row was found: after (a terminal view of this job had already
\* been returned) and lost (the executor had already dropped the job's result).
IdleCall == [pc |-> "idle", user |-> 0, task_id |-> 0, cache |-> NoMeta,
             code |-> 0, detail |-> None,
             status |-> None, result |-> None, error |-> None,
             after |-> FALSE, lost |-> FALSE]

\* Addresses requests come from.
Clients == {"10.0.0.1", "10.0.0.2"}

\* main.py:285  request_counts = defaultdict(list): a missing key reads as [].
RateInit ==
    /\ request_counts = [ip \in Clients |-> <<>>]
    /\ current_time = 0
    /\ client_ip = None
    /\ called_next = FALSE

Init ==
    /\ RateInit
    /\ chat_tasks = [j \in TaskIds |-> NoRow]
    /\ worker     = [j \in TaskIds |-> NoTask]
    /\ backend    = [j \in TaskIds |-> NoMeta]
    /\ submit     = [j \in TaskIds |-> NoRequest]
    /\ calls      = [c \in Calls |-> IdleCall]
    /\ reported   = [j \in TaskIds |-> NoView]

\* ------------------------------------------- POST /chat/background (submit)

\* Celery assigns a fresh uuid; the model hands ids out lowest first.
FreshId(j) == /\ submit[j].pc = "free"
              /\ \A k \in TaskIds : k < j => submit[k].pc # "free"

\* main.py:154-157  process_long_chat_task.delay(...) succeeds: the message is
\* on the broker before anything is written to chat_tasks.
SubmitDispatch(u, j) ==
    /\ FreshId(j)
    /\ worker' = [worker EXCEPT ![j] = [pc |-> "queued", user_id |-> u]]
    /\ submit' = [submit EXCEPT ![j] = [pc |-> "dispatched", user |-> u]]
    /\ UNCHANGED <<chat_tasks, backend, calls, reported, rateVars>>

\* main.py:154-157  delay() raises (broker unreachable) after drawing the id:
\* the exception leaves the handler, nothing reaches the broker or chat_tasks.
SubmitDispatchFails(u, j) ==
    /\ FreshId(j)
    /\ submit' = [submit EXCEPT ![j] = [pc |-> "dispatch_failed", user |-> u]]
    /\ UNCHANGED <<chat_tasks, worker, backend, calls, reported, rateVars>>

\* main.py:160-172  ChatTask(id=task.id, user_id=..., status="pending"),
\* db.add, commit, then the 200 response.
NewRow(u) == [user_id |-> u, status |-> "pending", result |-> None, error |-> None]

SubmitCommit(j) ==
    /\ submit[j].pc = "dispatched"
    /\ chat_tasks' = [chat_tasks EXCEPT ![j] = NewRow(submit[j].user)]
    /\ submit' = [submit EXCEPT ![j].pc = "done"]
    /\ UNCHANGED <<worker, backend, calls, reported, rateVars>>

\* main.py:169-172  what the client of the request that drew id j was answered:
\* BackgroundTaskResponse(task_id, PENDING) after the commit, otherwise the
\* unhandled exception (500, no body of the response model).
NoResponse == [code |-> 0, task_id |-> 0, status |-> None, error |-> None]

SubmitResponse(j) ==
    CASE submit[j].pc = "done" ->
           [code |-> 200, task_id |-> j, status |-> "pending", error |-> None]
      [] submit[j].pc \in {"dispatch_failed", "commit_failed"} ->
           [code |-> 500, task_id |-> 0, status |-> None, error |-> None]
      [] OTHER -> NoResponse

\* main.py:167  await db.commit() raises (store unavailable): 500, no row; the
\* message dispatched at line 154 stays on the broker.
SubmitCommitFails(j) ==
    /\ submit[j].pc = "dispatched"
    /\ submit' = [submit EXCEPT ![j].pc = "commit_failed"]
    /\ UNCHANGED <<chat_tasks, worker, backend, calls, reported, rateVars>>

\* ----------------------------------------- Celery worker (process_long_chat_task)

UpdateState(j, state, meta) ==
    backend' = [backend EXCEPT ![j] = [status |-> state, result |-> meta]]

WorkerStep(j, from, to) ==
    /\ worker[j].pc = from
    /\ worker' = [worker EXCEPT ![j].pc = to]

\* background_tasks.py:36
WorkerStart(j) ==
    /\ WorkerStep(j, "queued", "progress0")
    /\ UpdateState(j, "PROCESSING", "progress0")
    /\ UNCHANGED <<chat_tasks, submit, calls, reported, rateVars>>

\* background_tasks.py:40-42
WorkerProgress50(j) ==
    /\ WorkerStep(j, "progress0", "progress50")
    /\ UpdateState(j, "PROCESSING", "progress50")
    /\ UNCHANGED <<chat_tasks, submit, calls, reported, rateVars>>

\* background_tasks.py:45-59  the completion call returned
WorkerProgress90(j) ==
    /\ WorkerStep(j, "progress50", "progress90")
    /\ UpdateState(j, "PROCESSING", "progress90")
    /\ UNCHANGED <<chat_tasks, submit, calls, reported, rateVars>>

\* background_tasks.py:61-67  return {...}: Celery stores SUCCESS with the value
WorkerReturn(j) ==
    /\ WorkerStep(j, "progress90", "success")
    /\ UpdateState(j, "SUCCESS", "result")
    /\ UNCHANGED <<chat_tasks, submit, calls, reported, rateVars>>

\* background_tasks.py:69-73  the completion call raised:
\* update_state(state="FAILURE", meta={"error": str(e)})
WorkerUpdateFailure(j) ==
    /\ WorkerStep(j, "progress50", "failure_meta")
    /\ UpdateState(j, "FAILURE", "meta_error")
    /\ UNCHANGED <<chat_tasks, submit, calls, reported, rateVars>>

\* background_tasks.py:74  raise: Celery stores FAILURE with the exception
WorkerRaise(j) ==
    /\ WorkerStep(j, "failure_meta", "failure")
    /\ UpdateState(j, "FAILURE", "exc_error")
    /\ UNCHANGED <<chat_tasks, submit, calls, reported, rateVars>>

WorkerDone(j) == worker[j].pc \in {"success", "failure"}

\* background_tasks.py:25  result_expires=3600: an hour after the final result
\* was stored the backend drops the key.
ExpireResult(j) ==
    /\ WorkerDone(j)
    /\ backend[j] # NoMeta
    /\ backend' = [backend EXCEPT ![j] = NoMeta]
    /\ UNCHANGED <<chat_tasks, worker, submit, calls, reported, rateVars>>

\* The executor no longer knows the handle: it ran the job and dropped the result.
Expired(j) == WorkerDone(j) /\ backend[j] = NoMeta

\* ------------------------------------------- GET /chat/tasks/{id} (poll)

\* Mutant of FindTask: the query filters on the id alone.
FindTaskById(user, task_id) ==
    IF task_id \in TaskIds THEN chat_tasks[task_id] ELSE NoRow

\* main.py:206-211  select(ChatTask).where((ChatTask.id == task_id) &
\* (ChatTask.user_id == current_user.id)), scalar_one_or_none()
FindTask(user, task_id) ==
    IF /\ task_id \in TaskIds
       /\ chat_tasks[task_id] # NoRow
       /\ chat_tasks[task_id].user_id = user
    THEN chat_tasks[task_id]
    ELSE NoRow

NotFound == [code |-> 404, detail |-> "Task not found"]
Found    == [code |-> 0, detail |-> None]

\* Mutant of LookupOutcome: a row of another principal is answered 403.
LookupOutcomeForbidden(user, task_id) ==
    IF FindTask(user, task_id) # NoRow THEN Found
    ELSE IF task_id \in TaskIds /\ chat_tasks[task_id] # NoRow
         THEN [code |-> 403, detail |-> "Forbidden"]
         ELSE NotFound

\* main.py:213-214  if not db_task: raise HTTPException(404, "Task not found")
LookupOutcome(user, task_id) ==
    IF FindTask(user, task_id) = NoRow THEN NotFound ELSE Found

\* Mutant of StatusMapping: a state missing from the dict is passed through.
StatusMappingVerbatim(state) ==
    CASE state = "PENDING"    -> "pending"
      [] state = "PROCESSING" -> "processing"
      [] state = "SUCCESS"    -> "completed"
      [] state = "FAILURE"    -> "failed"
      [] OTHER                -> state

\* main.py:217-222,226  status_mapping.get(task.state, TaskStatus.PENDING)
StatusMapping(state) ==
    CASE state = "PENDING"    -> "pending"
      [] state = "PROCESSING" -> "processing"
      [] state = "SUCCESS"    -> "completed"
      [] state = "FAILURE"    -> "failed"
      [] OTHER                -> "pending"

\* main.py:203,226-228  AsyncResult: every read of .state/.result/.info goes to
\* the backend unless a ready meta was cached by an earlier read of the same
\* AsyncResult; a key the backend does not hold reads as PENDING.
GetTaskMeta(cache, task_id) ==
    IF cache # NoMeta THEN cache
    ELSE IF backend[task_id] = NoMeta THEN [status |-> "PENDING", result |-> None]
    ELSE backend[task_id]

MaybeSetCache(meta) == IF meta.status \in READY_STATES THEN meta ELSE NoMeta

\* main.py:228  str(task.info): the stored exception prints as its message.
Str(info) ==
    CASE info = "exc_error" -> "e"
      [] OTHER              -> info

View(call) == [status |-> call.status, result |-> call.result, error |-> call.error]

\* main.py:203-214  the request arrives, the row is looked up, 404 when the
\* query returns nothing.
\* A request slot is free before its first request and after its response; a
\* new request takes the lowest free slot.
FreeCall(c) == calls[c].pc \in {"idle", "done"}

GetTaskLookup(c, u, j) ==
    /\ FreeCall(c)
    /\ \A k \in Calls : k < c => ~FreeCall(k)
    /\ LET out  == LookupOutcome(u, j)
           seen == out = Found
       IN calls' = [calls EXCEPT ![c] =
                      [pc |-> IF seen THEN "state" ELSE "done",
                       user |-> u, task_id |-> j, cache |-> NoMeta,
                       code |-> out.code, detail |-> out.detail,
                       status |-> None, result |-> None, error |-> None,
                       after |-> seen /\ reported[j] # NoView,
                       lost |-> seen /\ Expired(j)]]
    /\ UNCHANGED <<chat_tasks, worker, backend, submit, reported, rateVars>>

\* main.py:226-228 with background_tasks.py:22,70-73  the FAILURE meta written
\* by update_state is a plain dict stored as JSON, not a serialized exception;
\* the backend decodes the result of every FAILURE meta it fetches as an
\* exception and raises on this one, so a read that fetches it ends the request
\* with an unhandled exception (500).
UndecodableMeta(meta) == meta.status = "FAILURE" /\ meta.result = "meta_error"

DecodeFails(c) ==
    calls[c].cache = NoMeta /\ UndecodableMeta(backend[calls[c].task_id])

ReadRaises(c) ==
    /\ calls[c].pc \in {"state", "successful", "failed"}
    /\ DecodeFails(c)
    /\ calls' = [calls EXCEPT ![c].pc = "done", ![c].code = 500,
                              ![c].detail = "Internal Server Error",
                              ![c].status = None, ![c].result = None,
                              ![c].error = None]
    /\ UNCHANGED <<chat_tasks, worker, backend, submit, reported, rateVars>>

\* main.py:226  status=status_mapping.get(task.state, ...)
ReadState(c) ==
    /\ calls[c].pc = "state"
    /\ ~DecodeFails(c)
    /\ LET meta == GetTaskMeta(calls[c].cache, calls[c].task_id)
       IN calls' = [calls EXCEPT ![c].pc = "successful",
                                 ![c].status = StatusMapping(meta.status),
                                 ![c].cache = MaybeSetCache(meta)]
    /\ UNCHANGED <<chat_tasks, worker, backend, submit, reported, rateVars>>

\* main.py:227  result=task.result if task.successful() else None
ReadSuccessful(c) ==
    /\ calls[c].pc = "successful"
    /\ ~DecodeFails(c)
    /\ LET meta == GetTaskMeta(calls[c].cache, calls[c].task_id)
       IN calls' = [calls EXCEPT ![c].pc = "failed",
                                 ![c].result = IF meta.status = "SUCCESS"
                                               THEN meta.result ELSE None,
                                 ![c].cache = MaybeSetCache(meta)]
    /\ UNCHANGED <<chat_tasks, worker, backend, submit, reported, rateVars>>

\* main.py:224-229  error=str(task.info) if task.failed() else None, and the
\* BackgroundTaskResponse is returned with 200.
ReadFailed(c) ==
    /\ calls[c].pc = "failed"
    /\ ~DecodeFails(c)
    /\ LET meta == GetTaskMeta(calls[c].cache, calls[c].task_id)
           done == [calls[c] EXCEPT !.pc = "done", !.code = 200,
                                    !.error = IF meta.status = "FAILURE"
                                              THEN Str(meta.result) ELSE None,
                                    !.cache = NoMeta]
           j    == calls[c].task_id
       IN /\ calls' = [calls EXCEPT ![c] = done]
          /\ reported' = IF done.status \in Terminal /\ reported[j] = NoView
                         THEN [reported EXCEPT ![j] = View(done)]
                         ELSE reported
    /\ UNCHANGED <<chat_tasks, worker, backend, submit, rateVars>>

Next ==
    \/ \E c \in Calls, u \in Users, j \in PollIds : GetTaskLookup(c, u, j)
    \/ \E c \in Calls : ReadRaises(c)
    \/ \E c \in Calls : ReadState(c)
    \/ \E c \in Calls : ReadSuccessful(c)
    \/ \E c \in Calls : ReadFailed(c)
    \/ \E j \in TaskIds : \E u \in Submitters(j) : SubmitDispatch(u, j)
    \/ \E j \in TaskIds : \E u \in Submitters(j) : SubmitDispatchFails(u, j)
    \/ \E j \in TaskIds : SubmitCommit(j)
    \/ \E j \in TaskIds : SubmitCommitFails(j)
    \/ \E j \in TaskIds : WorkerStart(j)
    \/ \E j \in TaskIds : WorkerProgress50(j)
    \/ \E j \in TaskIds : WorkerProgress90(j)
    \/ \E j \in TaskIds : WorkerReturn(j)
    \/ \E j \in TaskIds : WorkerUpdateFailure(j)
    \/ \E j \in TaskIds : WorkerRaise(j)
    \/ \E j \in TaskIds : ExpireResult(j)

Spec == Init /\ [][Next]_vars

\* ------------------------------------------------------ rate_limit_middleware

RateLimit == 100       \* main.py:303  requests per window
Window    == 60        \* main.py:299  seconds

\* Readings of time.time(): the first and MaxInstant more, a window apart.
Instants == {i * Window : i \in 0..MaxInstant}

\* main.py:297-300  the entries of the last minute
Recent(times, now) == SelectSeq(times, LAMBDA req_time : now - req_time < Window)

\* Mutant of LimitReached: the comparison is strict.
LimitExceeded(times) == Len(times) > RateLimit

\* main.py:303
LimitReached(times) == Len(times) >= RateLimit

\* main.py:288-310.  Nothing is awaited between reading the clock and the
\* append, so the middleware up to call_next is one step; the clock does not
\* run backwards between two requests.
RateLimitMiddleware(ip, t) ==
    /\ t >= current_time
    /\ client_ip' = ip
    /\ current_time' = t
    /\ LET recent == Recent(request_counts[ip], t) IN
           IF LimitReached(recent)
           THEN /\ request_counts' = [request_counts EXCEPT ![ip] = recent]
                /\ called_next' = FALSE
           ELSE /\ request_counts' = [request_counts EXCEPT ![ip] = Append(recent, t)]
                /\ called_next' = TRUE
    /\ UNCHANGED jobVars

RateNext == \E ip \in Clients, t \in Instants : RateLimitMiddleware(ip, t)

SpecRate == Init /\ [][RateNext]_vars

\* ------------------------------------------------------------- properties

Returned(c)   == calls[c].pc = "done"
ReturnedOk(c) == Returned(c) /\ calls[c].code = 200
Response(c)   == [code |-> calls[c].code, detail |-> calls[c].detail]

Missing(j)          == j \notin TaskIds \/ chat_tasks[j] = NoRow
OwnedByOther(u, j)  == /\ j \in TaskIds
                       /\ chat_tasks[j] # NoRow
                       /\ chat_tasks[j].user_id # u

\* C1  Terminal-state monotonicity: a poll by the owner that starts after a poll
\* reported the job completed or failed returns that same status, result and
\* error, whatever the executor holds by then.
TerminalStateMonotonic ==
    \A c \in Calls :
        (ReturnedOk(c) /\ calls[c].after)
            => View(calls[c]) = reported[calls[c].task_id]

\* C2  Ownership isolation: a poll of a job whose record belongs to another
\* principal ends with 404 and carries no status, result or error of the job;
\* the executor is not even asked.
OwnershipIsolation ==
    /\ \A u \in Users, j \in PollIds :
           OwnedByOther(u, j) => LookupOutcome(u, j) = NotFound
    /\ \A c \in Calls :
           (calls[c].pc # "idle" /\ OwnedByOther(calls[c].user, calls[c].task_id))
               => /\ Returned(c)
                  /\ Response(c) = NotFound
                  /\ View(calls[c]) = NoView
                  /\ calls[c].cache = NoMeta

\* C2 witness: principal B has been answered 404 for a job of A whose result the
\* executor holds.
OwnershipIsolationWitness ==
    \E c \in Calls :
        /\ Returned(c)
        /\ OwnedByOther(calls[c].user, calls[c].task_id)
        /\ backend[calls[c].task_id].status = "SUCCESS"
        /\ Response(c) = NotFound

\* C3  No dangling submission: when the dispatch to the executor fails, the
\* client still gets the job id, a record with that id exists and is failed with
\* the submission error, the owner's poll returns that failed view, and no
\* pending record lacks an executor job.
NoDanglingSubmission ==
    /\ \A j \in TaskIds :
           submit[j].pc = "dispatch_failed"
               => /\ SubmitResponse(j).task_id = j
                  /\ chat_tasks[j] # NoRow
                  /\ chat_tasks[j].status = "failed"
                  /\ chat_tasks[j].error # None
    /\ \A c \in Calls :
           (/\ Returned(c)
            /\ calls[c].task_id \in TaskIds
            /\ submit[calls[c].task_id].pc = "dispatch_failed"
            /\ submit[calls[c].task_id].user = calls[c].user)
               => calls[c].status = "failed" /\ calls[c].error # None
    /\ \A j \in TaskIds :
           (chat_tasks[j] # NoRow /\ chat_tasks[j].status = "pending")
               => worker[j] # NoTask

\* C4  Retention expiry: a poll by the owner that starts when the executor has
\* dropped the job's result while the record is not terminal returns failed
\* with a "retention expired" error, never pending or processing.
RetentionExpiryReported ==
    \A c \in Calls :
        (/\ ReturnedOk(c)
         /\ calls[c].lost
         /\ chat_tasks[calls[c].task_id].status \notin Terminal)
            => /\ calls[c].status = "failed"
               /\ calls[c].error = "retention expired"

\* C5  Record before dispatch: every unit of work the executor has accepted has
\* a record with the same id owned by the submitting principal, in every state,
\* between the steps of a submission and after a failed commit included.
RecordBeforeDispatch ==
    \A j \in TaskIds :
        worker[j] # NoTask
            => /\ chat_tasks[j] # NoRow
               /\ chat_tasks[j].user_id = worker[j].user_id

\* C6  Persist before returning: after a poll has returned, the status stored in
\* the record equals the status returned; in particular a pending record whose
\* job the executor reports in progress is stored as running.
RunningPersistedBeforeReturn ==
    \A c \in Calls :
        ReturnedOk(c) => chat_tasks[calls[c].task_id].status = calls[c].status

\* The view of one state of the executor.
ViewOf(meta) ==
    [status |-> StatusMapping(meta.status),
     result |-> IF meta.status = "SUCCESS" THEN meta.result ELSE None,
     error  |-> IF meta.status = "FAILURE" THEN Str(meta.result) ELSE None]

ExecutorMetas ==
    {[status |-> "PENDING", result |-> None]}
        \cup [status : {"PROCESSING"},
              result : {"progress0", "progress50", "progress90"}]
        \cup {[status |-> "SUCCESS", result |-> "result"]}
        \cup {[status |-> "FAILURE", result |-> "exc_error"]}

\* C7  Convergence under concurrent polls: every returned view is the view of
\* one state of the executor, and a terminal view is returned only with the
\* terminal state written to the record.
ConcurrentPollsConverge ==
    \A c \in Calls :
        ReturnedOk(c)
            => /\ View(calls[c]) \in {ViewOf(m) : m \in ExecutorMetas}
               /\ calls[c].status \in Terminal
                      => /\ chat_tasks[calls[c].task_id].status = calls[c].status
                         /\ chat_tasks[calls[c].task_id].result = calls[c].result
                         /\ chat_tasks[calls[c].task_id].error = calls[c].error

WellFormed(x) ==
    /\ x.result # None => x.status = "completed"
    /\ x.error # None => x.status = "failed"
    /\ ~(x.result # None /\ x.error # None)
    /\ x.status \in Terminal => (x.result # None \/ x.error # None)

\* C8  Result/error invariant: in every record and in every returned view the
\* result is present only with completed, the error only with failed, never
\* both, and a terminal status carries one of them.
ResultErrorInvariant ==
    /\ \A j \in TaskIds : chat_tasks[j] # NoRow => WellFormed(chat_tasks[j])
    /\ \A c \in Calls : ReturnedOk(c) => WellFormed(View(calls[c]))

\* C10  NotFound is indistinguishable: for one caller, an id with no record and
\* an id whose record belongs to another principal get the same answer, in every
\* state of the records and the executor, and that answer carries no view.
NotFoundIndistinguishable ==
    /\ \A u \in Users, j1 \in PollIds, j2 \in PollIds :
           (Missing(j1) /\ OwnedByOther(u, j2))
               => LookupOutcome(u, j1) = LookupOutcome(u, j2)
    /\ \A c \in Calls :
           (/\ calls[c].pc # "idle"
            /\ \/ Missing(calls[c].task_id)
               \/ OwnedByOther(calls[c].user, calls[c].task_id))
               => \A u \in Users, j \in PollIds :
                      Missing(j) =>
                          /\ Response(c) = LookupOutcome(u, j)
                          /\ View(calls[c]) = NoView

\* C10 witness: a caller has been answered for another principal's job while an
\* id with no record exists and the executor knows the job.
NotFoundIndistinguishableWitness ==
    \E c \in Calls, j1 \in PollIds :
        /\ Returned(c)
        /\ Missing(j1)
        /\ OwnedByOther(calls[c].user, calls[c].task_id)
        /\ backend[calls[c].task_id] # NoMeta
        /\ Response(c) = LookupOutcome(calls[c].user, j1)

\* ------------------------------------------------ status translation alone

\* The states a Celery result backend can hold for a task id, each with the
\* kind of value stored beside it: the worker's own (background_tasks.py:36-74)
\* and the remaining names of celery.states.
NativeStates ==
    {"PENDING", "PROCESSING", "SUCCESS", "FAILURE",
     "RECEIVED", "STARTED", "RETRY", "REVOKED", "REJECTED", "IGNORED"}

NativeMetas ==
    [status : {"PROCESSING"}, result : {"progress0", "progress50", "progress90"}]
        \cup {[status |-> "SUCCESS", result |-> "result"],
              [status |-> "FAILURE", result |-> "exc_error"],
              [status |-> "FAILURE", result |-> "meta_error"],
              [status |-> "STARTED", result |-> "started_info"],
              [status |-> "RETRY",   result |-> "retry_exc"],
              [status |-> "REVOKED", result |-> "revoked_exc"]}
        \cup [status : {"RECEIVED", "REJECTED", "IGNORED"}, result : {None}]

\* Every id has a committed row of one of its possible submitters and the
\* executor holds any state for it (no key reads as PENDING); the polls of
\* get_task_status then run against that state, which no worker step changes.
TranslateInit ==
    /\ \E owner \in [TaskIds -> Users] :
           /\ \A j \in TaskIds : owner[j] \in Submitters(j)
           /\ chat_tasks = [j \in TaskIds |-> NewRow(owner[j])]
           /\ worker = [j \in TaskIds |-> [pc |-> "queued", user_id |-> owner[j]]]
           /\ submit = [j \in TaskIds |-> [pc |-> "done", user |-> owner[j]]]
    /\ backend \in [TaskIds -> NativeMetas \cup {NoMeta}]
    /\ RateInit
    /\ calls = [c \in Calls |-> IdleCall]
    /\ reported = [j \in TaskIds |-> NoView]

TranslateNext ==
    \/ \E c \in Calls, u \in Users, j \in PollIds : GetTaskLookup(c, u, j)
    \/ \E c \in Calls : ReadRaises(c)
    \/ \E c \in Calls : ReadState(c)
    \/ \E c \in Calls : ReadSuccessful(c)
    \/ \E c \in Calls : ReadFailed(c)

SpecTranslate == TranslateInit /\ [][TranslateNext]_vars

\* The keys of status_mapping.
MappedStates == {"PENDING", "PROCESSING", "SUCCESS", "FAILURE"}

NativeState(j) == IF backend[j] = NoMeta THEN "PENDING" ELSE backend[j].status

Translation ==
    [n \in NativeStates |->
        IF n = "PROCESSING" THEN "processing"
        ELSE IF n = "SUCCESS" THEN "completed"
        ELSE IF n = "FAILURE" THEN "failed"
        ELSE "pending"]

HasStatus(c) == calls[c].pc \in {"successful", "failed"} \/ ReturnedOk(c)

\* C11  Status translation: the status of a visible job is the fixed translation
\* of the executor's native state (PENDING to pending, PROCESSING to processing,
\* SUCCESS to completed, FAILURE to failed, every other state to pending); no
\* native state appears in a view or in a stored record; a result is returned
\* only for SUCCESS and an error only for FAILURE.
StatusTranslation ==
    /\ \A c \in Calls :
           HasStatus(c) =>
               /\ calls[c].status = Translation[NativeState(calls[c].task_id)]
               /\ calls[c].status \in TaskStatus \ NativeStates
    /\ \A c \in Calls :
           ReturnedOk(c) =>
               /\ calls[c].result # None
                      => /\ NativeState(calls[c].task_id) = "SUCCESS"
                         /\ calls[c].result = backend[calls[c].task_id].result
               /\ calls[c].error # None
                      => NativeState(calls[c].task_id) = "FAILURE"
    /\ \A j \in TaskIds :
           chat_tasks[j] # NoRow => chat_tasks[j].status \in TaskStatus \ NativeStates

\* C11 witness: a poll has returned pending for a job the executor holds in a
\* state outside the dict, with a stored value that was not returned.
StatusTranslationWitness ==
    \E c \in Calls :
        /\ ReturnedOk(c)
        /\ NativeState(calls[c].task_id) \in NativeStates \ MappedStates
        /\ backend[calls[c].task_id].result # None
        /\ View(calls[c]) = [status |-> "pending", result |-> None, error |-> None]

\* ------------------------------------------------------- rate-limit bound

\* The times recorded for a client that lie within the last Window seconds.
InWindow(ip) ==
    {i \in DOMAIN request_counts[ip] : current_time - request_counts[ip][i] < Window}

\* No client has more than RateLimit recorded times within the last window.
AtMostLimit == \A ip \in Clients : Cardinality(InWindow(ip)) <= RateLimit

\* After a client's request none of its entries is a window old or older.
OldDropped ==
    client_ip # None =>
        \A i \in DOMAIN request_counts[client_ip] :
            current_time - request_counts[client_ip][i] < Window

\* A request that arrives while RateLimit times of the last window are recorded
\* is not passed on and not recorded; any other request is recorded and passed.
RejectedAtLimit ==
    \A ip \in Clients :
        client_ip' = ip =>
            LET live == {i \in DOMAIN request_counts[ip] :
                            current_time' - request_counts[ip][i] < Window}
            IN  IF Cardinality(live) >= RateLimit
                THEN /\ ~called_next'
                     /\ Len(request_counts'[ip]) = Cardinality(live)
                     /\ Cardinality({i \in DOMAIN request_counts'[ip] :
                                        request_counts'[ip][i] = current_time'})
                            = Cardinality({i \in live :
                                            request_counts[ip][i] = current_time'})
                ELSE /\ called_next'
                     /\ Len(request_counts'[ip]) = Cardinality(live) + 1

\* A request changes the entries of no client but its own.
OthersUntouched ==
    \A ip \in Clients : ip # client_ip' => request_counts'[ip] = request_counts[ip]

\* C12  Rate-limit bound: no client ever has more than 100 recorded request
\* times within the last 60 seconds; a request arriving while 100 such times are
\* recorded is neither passed to the endpoint handler nor recorded; entries 60
\* seconds old or older are dropped on the client's next request; one client's
\* requests never change another client's entries.
RateLimitBound ==
    /\ [](AtMostLimit /\ OldDropped)
    /\ [][RejectedAtLimit /\ OthersUntouched]_vars

\* C12 witness: a client's request has just been refused with RateLimit times of
\* the current window recorded, while the other client still holds entries a
\* window old that it has not been back to drop.
RateLimitBoundWitness ==
    /\ client_ip # None
    /\ ~called_next
    /\ Cardinality(InWindow(client_ip)) = RateLimit
    /\ current_time >= Window
    /\ \E ip \in Clients \ {client_ip} :
           /\ request_counts[ip] # <<>>
           /\ InWindow(ip) = {}

====
